---------------------------- MODULE Spec2Model ----------------------------
(***************************************************************************)
(* Model of perfApp.py: NetworkLatencyTester.perform_requests (the         *)
(* sampling loop) and NetworkLatencyTester.to_dataframe, as main() drives  *)
(* them.                                                                   *)
(*                                                                         *)
(* Text is a sequence of one-character strings, so that splitlines(),      *)
(* split(": ") and float() are computed character by character.  A float   *)
(* is an exact fraction <<numerator, denominator>> in lowest terms.        *)
(***************************************************************************)
EXTENDS Integers, Sequences, FiniteSets, TLC

(***************************************************************************)
(* Bounds of the model.                                                    *)
(***************************************************************************)
MaxCount == 3      \* num_requests ranges over 0..MaxCount
MaxCalls == 2      \* to_dataframe is called at most MaxCalls times

Delays == {-1, 0, 1}   \* delay, in seconds

(***************************************************************************)
(* Text constants of the program.                                          *)
(***************************************************************************)
NL  == "\n"
SEP == <<":", " ">>
MS  == <<" ", "(", "m", "s", ")">>

DNS == <<"D","N","S"," ","L","o","o","k","u","p"," ","T","i","m","e">>
TCP == <<"T","C","P"," ","C","o","n","n","e","c","t"," ","T","i","m","e">>
SSL == <<"S","S","L"," ","H","a","n","d","s","h","a","k","e"," ","T","i","m","e">>
SRV == <<"S","e","r","v","e","r"," ","P","r","o","c","e","s","s","i","n","g"," ","T","i","m","e">>
TOT == <<"T","o","t","a","l"," ","T","i","m","e">>
REQ == <<"R","e","q","u","e","s","t"," ","N","u","m","b","e","r">>

\* The labels of the -w format, in the order curl is told to print them.
Labels == <<DNS, TCP, SSL, SRV, TOT>>

\* The keys of self.metrics, in insertion order.
MetricOrder == [k \in 1..Len(Labels) |-> Labels[k] \o MS]

MetricKeys == {MetricOrder[k] : k \in 1..Len(MetricOrder)}

EmptyMetrics == [m \in MetricKeys |-> <<>>]

(***************************************************************************)
(* Exact arithmetic for float values.                                      *)
(***************************************************************************)
RECURSIVE Gcd(_, _)
Gcd(a, b) == IF b = 0 THEN a ELSE Gcd(b, a % b)

Abs(n) == IF n < 0 THEN -n ELSE n

Norm(n, d) == LET g == Gcd(Abs(n), d) IN <<n \div g, d \div g>>

RECURSIVE Pow10(_)
Pow10(k) == IF k = 0 THEN 1 ELSE 10 * Pow10(k - 1)

(***************************************************************************)
(* str.splitlines(), str.split(sep) and float(str).                        *)
(***************************************************************************)
RECURSIVE Find(_, _, _)
\* The least index >= k at which sep occurs in s, or 0.
Find(s, sep, k) ==
    IF k + Len(sep) - 1 > Len(s) THEN 0
    ELSE IF SubSeq(s, k, k + Len(sep) - 1) = sep THEN k
    ELSE Find(s, sep, k + 1)

RECURSIVE Split(_, _)
Split(s, sep) ==
    LET k == Find(s, sep, 1)
    IN IF k = 0 THEN <<s>>
       ELSE <<SubSeq(s, 1, k - 1)>> \o Split(SubSeq(s, k + Len(sep), Len(s)), sep)

RECURSIVE SplitLines(_)
SplitLines(s) ==
    IF s = <<>> THEN <<>>
    ELSE LET k == Find(s, <<NL>>, 1)
         IN IF k = 0 THEN <<s>>
            ELSE <<SubSeq(s, 1, k - 1)>> \o SplitLines(SubSeq(s, k + 1, Len(s)))

RECURSIVE Strip(_)
Strip(s) ==
    IF s = <<>> THEN s
    ELSE IF Head(s) = " " THEN Strip(Tail(s))
    ELSE IF s[Len(s)] = " " THEN Strip(SubSeq(s, 1, Len(s) - 1))
    ELSE s

Digits == <<"0", "1", "2", "3", "4", "5", "6", "7", "8", "9">>

IsDigit(c) == \E k \in 1..Len(Digits) : Digits[k] = c

DigitVal(c) == (CHOOSE k \in 1..Len(Digits) : Digits[k] = c) - 1

RECURSIVE DigitsVal(_)
DigitsVal(s) ==
    IF s = <<>> THEN 0 ELSE 10 * DigitsVal(SubSeq(s, 1, Len(s) - 1)) + DigitVal(s[Len(s)])

AllDigits(s) == \A k \in 1..Len(s) : IsDigit(s[k])

\* float(s) for the decimal forms [sign] digits [. digits]: the value, or a
\* ValueError.
ParseFloat(s) ==
    LET t     == Strip(s)
        neg   == t # <<>> /\ Head(t) = "-"
        body  == IF t # <<>> /\ Head(t) \in {"-", "+"} THEN Tail(t) ELSE t
        dot   == Find(body, <<".">>, 1)
        ipart == IF dot = 0 THEN body ELSE SubSeq(body, 1, dot - 1)
        fpart == IF dot = 0 THEN <<>> ELSE SubSeq(body, dot + 1, Len(body))
        ok    == AllDigits(ipart) /\ AllDigits(fpart) /\ Len(ipart) + Len(fpart) >= 1
        mag   == DigitsVal(ipart \o fpart)
    IN IF ok
       THEN [ok |-> TRUE, val |-> Norm(IF neg THEN -mag ELSE mag, Pow10(Len(fpart)))]
       ELSE [ok |-> FALSE, val |-> <<0, 1>>]

\* float * 1000
Times1000(v) == Norm(v[1] * 1000, v[2])

(***************************************************************************)
(* What the probe (curl -o /dev/null -s -w <format> url) may write to its  *)
(* standard output.  The format asks for five lines "<Label>: <seconds>"; *)
(* the program does not check that this is what it reads.                  *)
(***************************************************************************)
Line(label, value) == label \o SEP \o value

RECURSIVE Text(_)
\* The lines, each ended by a newline.
Text(lines) ==
    IF lines = <<>> THEN <<>> ELSE Head(lines) \o <<NL>> \o Text(Tail(lines))

ValsA == << <<"0",".","0","1","0">>, <<"0",".","0","2","0">>, <<"0",".","0","3","0">>, <<"0",".","0","4","0">>, <<"0",".","0","5","0">> >>

ValsB == << <<"0",".","0","0","4","5","1","2">>, <<"0",".","0","2","1">>, <<" ","0",".","0","0","0","0","0","0">>, <<"0",".","2","5">>, <<"1",".","5">> >>

FormatLines(vals) == [k \in 1..Len(Labels) |-> Line(Labels[k], vals[k])]

Permute(lines, p) == [k \in 1..Len(p) |-> lines[p[k]]]

Perms == { <<1, 2, 3, 4, 5>>, <<5, 4, 3, 2, 1>> }

Without(lines, k) == SubSeq(lines, 1, k - 1) \o SubSeq(lines, k + 1, Len(lines))

Replace(lines, k, line) == [lines EXCEPT ![k] = line]

\* Lines that are not "<Label>: <decimal>" for one of the five labels.
BadLines ==
    { TOT \o <<" ">> \o ValsA[5],               \* no separator at all
      TOT \o <<":">> \o ValsA[5],               \* a colon, no space
      Line(TOT, <<"a","b","c">>),                         \* not a number
      Line(TOT, <<>>),                          \* nothing after the separator
      Line(Line(TOT, ValsA[5]), ValsA[1]),      \* two separators
      Line(<<"R","e","d","i","r","e","c","t"," ","T","i","m","e">>, ValsA[5]),                    \* a label that is no metric
      <<>> }                                    \* a blank line

BadAt == {1, 3}

FiveLineOutputs ==
    { Text(Permute(FormatLines(ValsA), p)) : p \in Perms } \cup { Text(FormatLines(ValsB)) }

ShortOutputs ==
    { <<>>,                                                   \* no output at all
      Text(Without(FormatLines(ValsA), 3)),                   \* four lines
      Text(Replace(FormatLines(ValsA), 2, Line(DNS, ValsA[2]))) }  \* a label twice

MalformedOutputs ==
    { Text(Replace(FormatLines(ValsA), k, bad)) : k \in BadAt, bad \in BadLines }

ProbeOutputs == FiveLineOutputs \cup ShortOutputs \cup MalformedOutputs

(***************************************************************************)
(* splitlines(), split(": ") and float() tabulated over the texts a probe  *)
(* can write, so that each is computed once for the whole check.           *)
(***************************************************************************)
SplitLinesOf == [out \in ProbeOutputs |-> SplitLines(out)]

ProbeLines == UNION {{SplitLinesOf[out][j] : j \in 1..Len(SplitLinesOf[out])} : out \in ProbeOutputs}

SplitOf == [line \in ProbeLines |-> Split(line, SEP)]

FloatOf == [s \in {SplitOf[line][Len(SplitOf[line])] : line \in ProbeLines} |-> ParseFloat(s)]

(***************************************************************************)
(* State.                                                                  *)
(***************************************************************************)
VARIABLES
    num_requests,   \* self.num_requests
    delay,          \* self.delay
    metrics,        \* self.metrics: key -> list of floats
    i,              \* the loop index of perform_requests
    pc,             \* where perform_requests (then main) stands
    err,            \* the exception perform_requests raised, or "none"
    stdout,         \* result.stdout of the last probe
    inflight,       \* probe processes started and not yet waited for
    launched,       \* probe processes started so far
    outputs,        \* what each probe wrote, in the order they ran
    progress_bar,   \* the calls made on progress_bar, in order
    status_text,    \* the calls made on status_text, in order
    sleeps,         \* calls of time.sleep that returned
    df,             \* what to_dataframe last returned
    calls           \* calls of to_dataframe so far

vars == <<num_requests, delay, metrics, i, pc, err, stdout, inflight, launched,
          outputs, progress_bar, status_text, sleeps, df, calls>>

NoFrame == [kind |-> "none"]

\* No exception, and an exception of a type raised at a line of perfApp.py.
NoError == [type |-> "none", line |-> 0]

Raised(type, line) == [type |-> type, line |-> line]

\* NetworkLatencyTester(url, num_requests, delay), and main() about to call
\* perform_requests.
Init ==
    /\ num_requests \in 0..MaxCount
    /\ delay \in Delays
    /\ metrics = EmptyMetrics
    /\ i = 0
    /\ pc = "for"
    /\ err = NoError
    /\ stdout = <<>>
    /\ inflight = 0
    /\ launched = 0
    /\ outputs = <<>>
    /\ progress_bar = <<>>
    /\ status_text = <<>>
    /\ sleeps = 0
    /\ df = NoFrame
    /\ calls = 0

(***************************************************************************)
(* perform_requests.                                                       *)
(***************************************************************************)
FractionZeroBased(idx) == <<idx, num_requests>>

\* (i + 1) / self.num_requests, as <<numerator, denominator>>
Fraction(idx) == <<idx + 1, num_requests>>

\* f"Performing request #{i + 1}..."
StatusMessage(idx) == <<"Performing request #", idx + 1, "...">>

LoopContinuesOffByOne == i <= num_requests

\* for i in range(self.num_requests): there is a next index
LoopContinues == i < num_requests

\* The loop takes index i, and reports progress.
Progress ==
    /\ pc = "for"
    /\ LoopContinues
    /\ progress_bar' = Append(progress_bar, [call |-> "progress", value |-> Fraction(i)])
    /\ status_text' = Append(status_text, StatusMessage(i))
    /\ pc' = "run"
    /\ UNCHANGED <<num_requests, delay, metrics, i, err, stdout, inflight, launched,
                   outputs, sleeps, df, calls>>

\* subprocess.run starts curl; without a curl on the PATH it raises
\* FileNotFoundError.
Launch ==
    /\ pc = "run"
    /\ \/ /\ inflight' = inflight + 1
          /\ launched' = launched + 1
          /\ pc' = "wait"
          /\ err' = err
       \/ /\ pc' = "failed"
          /\ err' = Raised("FileNotFoundError", 73)
          /\ UNCHANGED <<inflight, launched>>
    /\ UNCHANGED <<num_requests, delay, metrics, i, stdout, outputs, progress_bar,
                   status_text, sleeps, df, calls>>

\* subprocess.run waits for curl to exit and returns what it wrote.
ProbeReturn ==
    /\ pc = "wait"
    /\ \E out \in ProbeOutputs :
          /\ stdout' = out
          /\ outputs' = Append(outputs, out)
    /\ inflight' = inflight - 1
    /\ pc' = "parse"
    /\ UNCHANGED <<num_requests, delay, metrics, i, err, launched, progress_bar,
                   status_text, sleeps, df, calls>>

\* A parse that skips the lines it cannot read.
ParseLineLenient(m, line) ==
    LET parts == SplitOf[line]
    IN IF Len(parts) = 2 /\ (parts[1] \o MS) \in DOMAIN m /\ FloatOf[parts[2]].ok
       THEN [metrics |-> [m EXCEPT ![parts[1] \o MS] =
                             Append(@, Times1000(FloatOf[parts[2]].val))],
             err |-> NoError]
       ELSE [metrics |-> m, err |-> NoError]

\* The body of "for line in ...": one line parsed into the metrics.
ParseLine(m, line) ==
    LET parts == SplitOf[line]                                 \* line.split(": ")
    IN IF Len(parts) # 2
       THEN [metrics |-> m, err |-> Raised("ValueError", 92)]  \* metric, value = ...
       ELSE LET metric_ms == parts[1] \o MS
                value     == FloatOf[parts[2]]                 \* float(value)
            IN IF metric_ms \notin DOMAIN m
               THEN [metrics |-> m, err |-> Raised("KeyError", 94)]
               ELSE IF ~value.ok
               THEN [metrics |-> m, err |-> Raised("ValueError", 94)]
               ELSE [metrics |-> [m EXCEPT ![metric_ms] = Append(@, Times1000(value.val))],
                     err |-> NoError]

RECURSIVE ParseAt(_, _, _)
\* A parse that takes line k for the k-th metric, whatever its label.
ParseAt(m, lines, k) ==
    IF k > Len(lines) THEN [metrics |-> m, err |-> NoError]
    ELSE LET parts == SplitOf[lines[k]]
         IN IF Len(parts) # 2 THEN [metrics |-> m, err |-> Raised("ValueError", 92)]
            ELSE IF k > Len(MetricOrder) THEN [metrics |-> m, err |-> Raised("IndexError", 94)]
            ELSE IF ~FloatOf[parts[2]].ok
            THEN [metrics |-> m, err |-> Raised("ValueError", 94)]
            ELSE ParseAt([m EXCEPT ![MetricOrder[k]] =
                             Append(@, Times1000(FloatOf[parts[2]].val))], lines, k + 1)

ParseLinesByPosition(m, lines) == ParseAt(m, lines, 1)

RECURSIVE ParseLines(_, _)
\* for line in lines: ..., up to the first exception.
ParseLines(m, lines) ==
    IF lines = <<>> THEN [metrics |-> m, err |-> NoError]
    ELSE LET r == ParseLine(m, Head(lines))
         IN IF r.err # NoError THEN r ELSE ParseLines(r.metrics, Tail(lines))

Parse ==
    /\ pc = "parse"
    /\ \E r \in {ParseLines(metrics, SplitLinesOf[stdout])} :  \* result.stdout.splitlines()
          /\ metrics' = r.metrics
          /\ err' = r.err
          /\ pc' = IF r.err = NoError THEN "delay" ELSE "failed"
    /\ UNCHANGED <<num_requests, delay, i, stdout, inflight, launched, outputs,
                   progress_bar, status_text, sleeps, df, calls>>

NotLastOffByOne == i < num_requests

\* if i < self.num_requests - 1
NotLast == i < num_requests - 1

\* time.sleep(self.delay); a negative delay raises ValueError.
Sleep ==
    /\ pc = "delay"
    /\ NotLast
    /\ IF delay < 0
       THEN /\ pc' = "failed"
            /\ err' = Raised("ValueError", 98)
            /\ UNCHANGED <<i, sleeps>>
       ELSE /\ sleeps' = sleeps + 1
            /\ i' = i + 1
            /\ pc' = "for"
            /\ err' = err
    /\ UNCHANGED <<num_requests, delay, metrics, stdout, inflight, launched, outputs,
                   progress_bar, status_text, df, calls>>

\* The last iteration does not sleep.
NoSleep ==
    /\ pc = "delay"
    /\ ~NotLast
    /\ i' = i + 1
    /\ pc' = "for"
    /\ UNCHANGED <<num_requests, delay, metrics, err, stdout, inflight, launched,
                   outputs, progress_bar, status_text, sleeps, df, calls>>

\* The loop is exhausted: progress_bar.empty(), "Requests completed!", return.
Finish ==
    /\ pc = "for"
    /\ ~LoopContinues
    /\ progress_bar' = Append(progress_bar, [call |-> "empty"])
    /\ status_text' = Append(status_text, <<"Requests completed!">>)
    /\ pc' = "done"
    /\ UNCHANGED <<num_requests, delay, metrics, i, err, stdout, inflight, launched,
                   outputs, sleeps, df, calls>>

(***************************************************************************)
(* to_dataframe, which main() calls once perform_requests has returned.    *)
(***************************************************************************)
RequestNumbersZeroBased(n) == [k \in 1..n |-> k - 1]

\* [i + 1 for i in range(n)]
RequestNumbers(n) == [k \in 1..n |-> k]

\* pd.DataFrame(data): the columns in the order of the dict, one row per
\* element; columns of different lengths raise ValueError.
DataFrame(columns, data) ==
    IF \E a, b \in DOMAIN data : Len(data[a]) # Len(data[b])
    THEN [kind |-> "ValueError"]
    ELSE [kind |-> "frame", columns |-> columns, data |-> data,
          nrows |-> Len(data[columns[1]])]

ToDataframeOf(m) ==
    LET numbers == RequestNumbers(Len(m[DNS \o MS]))
        data    == [c \in DOMAIN m \cup {REQ} |-> IF c = REQ THEN numbers ELSE m[c]]
    IN DataFrame(MetricOrder \o <<REQ>>, data)

ToDataframe ==
    /\ pc = "done"
    /\ calls < MaxCalls
    /\ df' = ToDataframeOf(metrics)
    /\ calls' = calls + 1
    /\ UNCHANGED <<num_requests, delay, metrics, i, pc, err, stdout, inflight,
                   launched, outputs, progress_bar, status_text, sleeps>>

Next ==
    \/ Progress
    \/ Launch
    \/ ProbeReturn
    \/ Parse
    \/ Sleep
    \/ NoSleep
    \/ Finish
    \/ ToDataframe

Spec == Init /\ [][Next]_vars

\* subprocess.run and time.sleep return, and the interpreter keeps running.
FairSpec == Spec /\ WF_vars(Next)

(***************************************************************************)
(* Vocabulary of the properties.                                           *)
(***************************************************************************)
\* Iterations whose values have all been appended.
Completed == IF pc = "delay" \/ (pc = "failed" /\ err.line = 98) THEN i + 1 ELSE i

\* Probe outputs the parsing loop has run on.
ParsedCount == IF pc = "parse" THEN Len(outputs) - 1 ELSE Len(outputs)

LinesOf(k) == SplitLinesOf[outputs[k]]

LacksSeparator(line) == Find(line, SEP, 1) = 0

LabelOf(line) == SubSeq(line, 1, Find(line, SEP, 1) - 1)

AfterSeparator(line) == SubSeq(line, Find(line, SEP, 1) + Len(SEP), Len(line))

\* The line lacks ": ", or what follows the first ": " is no decimal number.
Malformed(line) == LacksSeparator(line) \/ ~ParseFloat(AfterSeparator(line)).ok

MalformedLines == {line \in ProbeLines : Malformed(line)}

\* The index of the first malformed line of each output, or 0.
FirstMalformedOf ==
    [out \in ProbeOutputs |->
        LET ls  == SplitLinesOf[out]
            bad == {j \in 1..Len(ls) : ls[j] \in MalformedLines}
        IN IF bad = {} THEN 0 ELSE CHOOSE j \in bad : \A h \in bad : j <= h]

HasMalformed(out) == FirstMalformedOf[out] # 0

RECURSIVE LabelledValues(_, _)
\* 1000 times the seconds of the well-formed lines labelled label, in order.
LabelledValues(label, lines) ==
    IF lines = <<>> THEN <<>>
    ELSE (IF ~Malformed(Head(lines)) /\ LabelOf(Head(lines)) = label
          THEN <<Times1000(ParseFloat(AfterSeparator(Head(lines))).val)>>
          ELSE <<>>) \o LabelledValues(label, Tail(lines))

\* For each output and label n: the values of the lines labelled Labels[n]
\* that come before the output's first malformed line.
ValuesBeforeMalformed ==
    [out \in ProbeOutputs |->
        LET ls   == SplitLinesOf[out]
            upto == IF FirstMalformedOf[out] = 0 THEN Len(ls) ELSE FirstMalformedOf[out] - 1
        IN [n \in 1..Len(Labels) |-> LabelledValues(Labels[n], SubSeq(ls, 1, upto))]]

RECURSIVE Collected(_, _)
\* The values labelled Labels[n] of the first k outputs.
Collected(n, k) ==
    IF k = 0 THEN <<>>
    ELSE Collected(n, k - 1) \o ValuesBeforeMalformed[outputs[k]][n]

\* The outputs of five well-formed lines, one for each label, in any order.
WellFormedFive ==
    {out \in ProbeOutputs :
        LET ls == SplitLinesOf[out]
        IN /\ Len(ls) = Len(Labels)
           /\ \A j \in 1..Len(ls) : ~Malformed(ls[j])
           /\ \A n \in 1..Len(Labels) :
                 Cardinality({j \in 1..Len(ls) : LabelOf(ls[j]) = Labels[n]}) = 1}

\* For a well-formed output and label n: the seconds on the line labelled
\* Labels[n].
SecondsOn ==
    [out \in WellFormedFive |->
        LET ls == SplitLinesOf[out]
        IN [n \in 1..Len(Labels) |->
               LET j == CHOOSE h \in 1..Len(ls) : LabelOf(ls[h]) = Labels[n]
               IN ParseFloat(AfterSeparator(ls[j])).val]]

ProgressCalls == SelectSeq(progress_bar, LAMBDA c : c.call = "progress")

EqualLengths == \A a, b \in MetricKeys : Len(metrics[a]) = Len(metrics[b])

(***************************************************************************)
(* C1: for count >= 1 and delay >= 0, when perform_requests returns every  *)
(* metric sequence has length exactly count, whatever the probes wrote.    *)
(* Fails: an output of fewer than five lines leaves sequences short.       *)
(***************************************************************************)
C1_ReturnsCountSamples ==
    (pc = "done" /\ num_requests >= 1 /\ delay >= 0)
        => \A m \in MetricKeys : Len(metrics[m]) = num_requests

(***************************************************************************)
(* C2: a probe that wrote nothing at all fails the run at that iteration:  *)
(* once its output has been parsed the run is failed and no further probe  *)
(* has run.  Fails: the loop over zero lines does nothing and goes on.     *)
(***************************************************************************)
C2_EmptyOutputFailsRun ==
    \A k \in 1..ParsedCount :
        outputs[k] = <<>> => (pc = "failed" /\ Len(outputs) = k)

(***************************************************************************)
(* C3, as stated: after a malformed line the run is failed, no further     *)
(* probe runs and the metrics hold none of the values collected so far.    *)
(* Fails: the values appended before the failing line stay in the metrics. *)
(***************************************************************************)
C3_PartialDataDiscarded ==
    \A k \in 1..ParsedCount :
        HasMalformed(outputs[k])
            => (pc = "failed" /\ launched = k /\ metrics = EmptyMetrics)

(***************************************************************************)
(* C3, amended: an output with a malformed line ends the run with an       *)
(* uncaught exception at that iteration (ValueError, or KeyError when a    *)
(* label that is no metric comes first); no further probe is launched;     *)
(* and after the ValueError the metrics hold exactly the values appended   *)
(* before the failing line: those of the earlier iterations and of the     *)
(* earlier lines of the failing one.  Nothing is rolled back.              *)
(***************************************************************************)
C3_MalformedOutputEndsRun ==
    \A k \in 1..ParsedCount :
        HasMalformed(outputs[k]) =>
            /\ pc = "failed"
            /\ err.type \in {"ValueError", "KeyError"}
            /\ err.line \in {92, 94}
            /\ Len(outputs) = k
            /\ launched = k
            /\ inflight = 0
            /\ err.type = "ValueError" =>
                  \A n \in 1..Len(Labels) : metrics[MetricOrder[n]] = Collected(n, k)

\* A second iteration failed on a bad line after good ones, with the first
\* iteration's values and the good lines' values still in the metrics.
C3_Witness ==
    /\ pc = "failed"
    /\ err = Raised("ValueError", 92)
    /\ Len(outputs) = 2
    /\ FirstMalformedOf[outputs[2]] = 3
    /\ Len(metrics[DNS \o MS]) = 2
    /\ Len(metrics[TOT \o MS]) = 1

(***************************************************************************)
(* C4: a run with count < 1 or delay < 0 is rejected before any probe is   *)
(* started, and never completes normally.  Fails: nothing checks either.   *)
(***************************************************************************)
C4_InvalidConfigurationRejected ==
    (num_requests < 1 \/ delay < 0) => (launched = 0 /\ pc # "done")

(***************************************************************************)
(* C5: in every state of a run the five metric sequences have the same     *)
(* length, the number of completed iterations.  Fails: see C1.             *)
(***************************************************************************)
C5_EqualLengthsCompleted ==
    \A m \in MetricKeys : Len(metrics[m]) = Completed

(***************************************************************************)
(* C6: values are matched by label text, not by line position.  For every  *)
(* completed iteration k such that the outputs of iterations 1..k were     *)
(* five well-formed lines, one per label in any order, and every label L,  *)
(* the k-th element of the sequence of L is 1000 times the seconds on the  *)
(* line of output k labelled L.                                            *)
(***************************************************************************)
C6_MatchedByLabel ==
    \A k \in 1..Completed :
        (\A j \in 1..k : outputs[j] \in WellFormedFive) =>
            \A n \in 1..Len(Labels) :
                /\ Len(metrics[MetricOrder[n]]) >= k
                /\ metrics[MetricOrder[n]][k] = Times1000(SecondsOn[outputs[k]][n])

\* Two completed iterations whose outputs are the same five lines in a
\* different order gave the same values.
C6_Witness ==
    /\ Completed >= 2
    /\ outputs[1] \in WellFormedFive
    /\ outputs[2] \in WellFormedFive
    /\ outputs[1] # outputs[2]
    /\ LinesOf(1)[1] = LinesOf(2)[5]
    /\ \A n \in 1..Len(Labels) : metrics[MetricOrder[n]][1] = metrics[MetricOrder[n]][2]
    /\ metrics[DNS \o MS][2] # metrics[TOT \o MS][2]

(***************************************************************************)
(* C7: the loop index only moves up by one; each iteration starts exactly  *)
(* one probe, and only when none is in flight; the run ends, after count   *)
(* iterations and count probes, or (delay >= 0) at the first iteration     *)
(* whose launch or parse raises; nothing runs after a failure.             *)
(***************************************************************************)
C7_SequentialAndTerminates ==
    /\ [][i' = i \/ i' = i + 1]_vars
    /\ [](inflight \in {0, 1} /\ (inflight = 1 <=> pc = "wait"))
    /\ [][launched' # launched =>
            (launched' = launched + 1 /\ inflight = 0 /\ launched = i)]_vars
    /\ [](launched = IF pc \in {"wait", "parse", "delay"}
                        \/ (pc = "failed" /\ err.line # 73)
                     THEN i + 1 ELSE i)
    /\ [](pc = "done" => (i = num_requests /\ launched = num_requests))
    /\ []((pc = "failed" /\ delay >= 0) =>
             (err.line \in {73, 92, 94} /\ i < num_requests))
    /\ [][pc = "failed" => pc' = "failed" /\ launched' = launched /\ metrics' = metrics]_vars
    /\ <>(pc \in {"done", "failed"})

\* A run of three iterations has returned, after three probes.
C7_Witness == pc = "done" /\ num_requests = 3 /\ launched = 3 /\ Len(outputs) = 3

(***************************************************************************)
(* C8: the delay is taken between iterations only: by the time the loop is *)
(* at index i it has slept i times, it does not sleep after the last       *)
(* iteration, and a run that returns has slept count - 1 times.            *)
(***************************************************************************)
C8_SleepsBetweenIterations ==
    /\ sleeps = (IF i < num_requests THEN i
                 ELSE IF num_requests >= 1 THEN num_requests - 1 ELSE 0)
    /\ (pc = "done" /\ num_requests >= 1) => sleeps = num_requests - 1

\* A run of three iterations has returned, having slept twice.
C8_Witness == pc = "done" /\ num_requests = 3 /\ sleeps = 2

(***************************************************************************)
(* C9: to_dataframe on metrics of N values each returns N rows, row k with *)
(* the k-th value of each metric and Request Number k, the columns being   *)
(* the five metrics then "Request Number"; it does not change the metrics, *)
(* and a second call returns the same table.                               *)
(***************************************************************************)
C9_ToDataframe ==
    /\ []((calls >= 1 /\ EqualLengths) =>
            /\ df.kind = "frame"
            /\ df.nrows = Len(metrics[DNS \o MS])
            /\ df.columns = MetricOrder \o <<REQ>>
            /\ \A c \in DOMAIN df.data : Len(df.data[c]) = df.nrows
            /\ \A k \in 1..df.nrows :
                  /\ df.data[REQ][k] = k
                  /\ \A m \in MetricKeys : df.data[m][k] = metrics[m][k])
    /\ [][calls' # calls => (metrics' = metrics /\ (calls >= 1 => df' = df))]_vars

\* to_dataframe was called twice on three iterations' values.
C9_Witness == calls = 2 /\ df.kind = "frame" /\ df.nrows = 3

(***************************************************************************)
(* C10: progress is reported once per iteration, before its probe starts:  *)
(* the k-th report is the fraction k/count, in (0, 1], the fractions grow  *)
(* strictly, the last one of a run that returns is 1, and the k-th status  *)
(* message names request #k.                                               *)
(***************************************************************************)
C10_ProgressPerIteration ==
    LET P == ProgressCalls
    IN /\ Len(P) = (IF pc \in {"run", "wait", "parse", "delay", "failed"} THEN i + 1 ELSE i)
       /\ \A k \in 1..Len(P) :
             /\ P[k].value = <<k, num_requests>>
             /\ 0 < P[k].value[1]
             /\ P[k].value[1] <= P[k].value[2]
             /\ progress_bar[k] = P[k]
             /\ status_text[k] = <<"Performing request #", k, "...">>
       /\ \A k \in 1..(Len(P) - 1) :
             P[k].value[1] * P[k + 1].value[2] < P[k + 1].value[1] * P[k].value[2]
       /\ launched <= Len(P)
       /\ pc = "run" => launched = Len(P) - 1
       /\ (pc = "done" /\ num_requests >= 1) =>
             (Len(P) = num_requests /\ P[Len(P)].value[1] = P[Len(P)].value[2])

\* The third of three iterations has reported 3/3 and not yet started its probe.
C10_Witness ==
    /\ pc = "run"
    /\ num_requests = 3
    /\ Len(ProgressCalls) = 3
    /\ launched = 2

=============================================================================
